---- MODULE Spec2Model ----
(***************************************************************************)
(* A model of obsidian-brain (obra): the vector store (db.rs), the         *)
(* synchronizer (index.rs), the ranker (search.rs), the request server     *)
(* (ipc.rs) and the change monitor (watcher.rs).                           *)
(*                                                                         *)
(* Conventions.  An Option<T> is a set with at most one element ({} is     *)
(* None).  A string that the code inspects is a sequence of characters.    *)
(* A path is a record [dirs, stem, ext]: the directories below the vault   *)
(* root, the file stem and the extension.  A text is a record              *)
(* [ver, lo, hi]: the code points lo..hi-1 of the full text built from     *)
(* version ver of a file's content.  Times are integers on one clock.      *)
(***************************************************************************)
EXTENDS Integers, Sequences, FiniteSets, TLC

VARIABLES
    db,          \* the open Database: [index, chunks, next_id]          (db.rs:17-22)
    disk,        \* data_dir: [index, chunks], each an Option of a saved artifact
    meta_file,   \* data_dir/meta.json: Option of Meta.last_sync
    files,       \* the vault: path -> [exists, ver, len, blank, mtime]
    clock,       \* the wall clock (Utc::now, and the source of file mtimes)
    pc,          \* per execution unit: where it stands in its operation
    loc,         \* per execution unit: the locals of its operation
    lock,        \* SyncManager.db's mutex: the set of units holding a guard
    last_sync_time, \* SyncManager.last_sync_time
    search,      \* the last run_search call: [query, matches, results]
    hist,        \* history: per path, the last operation on its fragments and the
                 \* content it read: [kind, ver, len, blank]
    cfg          \* the sets a specification draws the environment's choices from

vars == <<db, disk, meta_file, files, clock, pc, loc, lock, last_sync_time, search, hist, cfg>>

---------------------------------------------------------------------------
(* Bounds of the model *)

MaxId == 3          \* ids handed out by one store stay below this
MaxChunks == 2      \* rows kept in the metadata table
MaxIns == 2         \* fragments or vectors passed to one insert_chunks call
MaxSearchChunks == 6   \* rows of the store the ranker is run on
MaxVer == 2         \* versions of one file's content
MaxClock == 2       \* instants of the wall clock
FileBatchSize == 1  \* files per group (file_batch_size, 100 in the code, scaled to the vault)
MaxDaemonId == 2    \* ids handed out by the store of a daemon
MaxSyncId == 3      \* ids handed out by the stores of command-line runs
DayTicks == 1       \* the 24 hours after which the index is stale, in instants of the clock

---------------------------------------------------------------------------
(* Helpers *)

Min(a, b) == IF a <= b THEN a ELSE b

Range(s) == {s[i] : i \in DOMAIN s}

RECURSIVE SelectSeqBy(_, _)
\* Vec::retain / Iterator::filter with the predicate given as the set of kept rows
SelectSeqBy(s, keep) ==
    IF s = <<>> THEN <<>>
    ELSE IF Head(s) \in keep THEN <<Head(s)>> \o SelectSeqBy(Tail(s), keep)
         ELSE SelectSeqBy(Tail(s), keep)

MdPath(dirs, stem) == [dirs |-> dirs, stem |-> stem, ext |-> "md"]

\* path.file_stem()
file_stem(path) == path.stem

---------------------------------------------------------------------------
(* db.rs: the vector store *)

\* struct ChunkMeta
ChunkMeta(id, path, text, mtime) ==
    [id |-> id, path |-> path, filename |-> file_stem(path), text |-> text, mtime |-> mtime]

\* the ids of the metadata table
ChunkIds(d) == {d.chunks[i].id : i \in DOMAIN d.chunks}

\* Database::open on the artifacts found in data_dir
MutOpenCountsRows(dk) ==
    LET chunks == IF dk.chunks = {} THEN <<>> ELSE CHOOSE c \in dk.chunks : TRUE
    IN  [index   |-> IF dk.index = {} THEN {} ELSE CHOOSE x \in dk.index : TRUE,
         chunks  |-> chunks,
         next_id |-> Len(chunks)]
Open(dk) ==
    LET chunks == IF dk.chunks = {} THEN <<>> ELSE CHOOSE c \in dk.chunks : TRUE
        next   == {chunks[i].id + 1 : i \in DOMAIN chunks}
    IN  [index   |-> IF dk.index = {} THEN {} ELSE CHOOSE x \in dk.index : TRUE,
         chunks  |-> chunks,
         next_id |-> IF next = {} THEN 0 ELSE CHOOSE m \in next : \A k \in next : k <= m]

\* Database::save: the index artifact is written first, the table second;
\* `written` is how many of the two writes succeeded (2 = Ok)
Save(d, dk, written) ==
    [index  |-> IF written >= 1 THEN {d.index} ELSE dk.index,
     chunks |-> IF written >= 2 THEN {d.chunks} ELSE dk.chunks]

\* Database::delete_by_path
MutDeleteNothing(d, path) == d
MutDeleteRowsOnly(d, path) ==
    [d EXCEPT !.chunks = SelectSeqBy(d.chunks, {c \in Range(d.chunks) : c.path # path})]
delete_by_path(d, path) ==
    LET to_remove == {d.chunks[i].id : i \in {j \in DOMAIN d.chunks : d.chunks[j].path = path}}
    IN  [d EXCEPT !.index  = @ \ to_remove,
                  !.chunks = SelectSeqBy(@, {c \in Range(@) : c.path # path})]

\* Database::insert_chunks.  metas carry id 0 as their callers build them;
\* nvec is vectors.len(); reserve_ok is the outcome of index.reserve; fail_at = k > 0
\* makes the k-th index.add return Err (0: no add is made to fail).  An add under a
\* key the index already holds is an error of the index itself.
\* Result: [db, ok].
insert_chunks(d, metas, nvec, reserve_ok, fail_at) ==
    LET zipped == Min(Len(metas), nvec)
        dup    == {k \in 1..zipped : (d.next_id + k - 1) \in d.index}
        fails  == dup \cup (IF fail_at \in 1..zipped THEN {fail_at} ELSE {})
        first  == IF fails = {} THEN 0 ELSE CHOOSE k \in fails : \A j \in fails : k <= j
        added  == IF first = 0 THEN zipped ELSE first - 1
        withId == [i \in DOMAIN metas |->
                      IF i <= zipped THEN [metas[i] EXCEPT !.id = d.next_id + i - 1]
                      ELSE metas[i]]
    IN  IF ~reserve_ok THEN [db |-> d, ok |-> FALSE]
        ELSE IF first # 0
        THEN [db |-> [d EXCEPT !.index = @ \cup {d.next_id + k - 1 : k \in 1..added},
                               !.next_id = @ + added],
              ok |-> FALSE]
        ELSE [db |-> [index   |-> d.index \cup {d.next_id + k - 1 : k \in 1..zipped},
                      chunks  |-> d.chunks \o withId,
                      next_id |-> d.next_id + zipped],
              ok |-> TRUE]

---------------------------------------------------------------------------
(* chunker.rs: the fragmenter, on a text of len code points *)

chunk_size == 1000
chunk_overlap == 200

RECURSIVE MutChunkFromNoOverlap(_, _, _, _)
MutChunkFromNoOverlap(start, len, W, V) ==
    IF start < len
    THEN LET end == Min(start + W, len)
         IN  <<[lo |-> start, hi |-> end]>>
             \o (IF end = len THEN <<>> ELSE MutChunkFromNoOverlap(start + W, len, W, V))
    ELSE <<>>

RECURSIVE ChunkFrom(_, _, _, _)
\* the while loop of Chunker::chunk from offset start: the windows [lo, hi)
ChunkFrom(start, len, W, V) ==
    IF start < len
    THEN LET end == Min(start + W, len)
         IN  <<[lo |-> start, hi |-> end]>>
             \o (IF end = len THEN <<>> ELSE ChunkFrom(start + W - V, len, W, V))
    ELSE <<>>

\* Chunker::chunk
ChunkBounds(len, W, V) == IF len = 0 THEN <<>> ELSE ChunkFrom(0, len, W, V)

---------------------------------------------------------------------------
(* index.rs: process_batch *)

RECURSIVE SumLen(_)
SumLen(ss) == IF ss = <<>> THEN 0 ELSE Len(Head(ss)) + SumLen(Tail(ss))

\* the breadcrumb: the parent's segments with "/" replaced by " > "
BreadcrumbLen(path) ==
    IF path.dirs = <<>> THEN 0 ELSE SumLen(path.dirs) + 3 * (Len(path.dirs) - 1)

\* identity_header.len(): "FILE_NAME: {}\nHOLDER_FOLDERS: {}\nDOCUMENT_SUBJECT: {}\n
\* --- START OF CONTENT ---\n" has 73 code points besides its arguments
HeaderFixedLen == 73
HeaderLen(path) == HeaderFixedLen + 2 * Len(file_stem(path)) + BreadcrumbLen(path)

\* step 1 for one file: Ok((rel_path, filename, chunks, mtime)) or Err.
\* read_to_string fails on a file that is gone.
MutFileResultNoBlankCheck(fs, path, mtime) ==
    LET f == fs[path]
    IN  IF ~f.exists THEN [ok |-> FALSE, path |-> path, metas |-> <<>>]
        ELSE LET b == ChunkBounds(HeaderLen(path) + f.len, chunk_size, chunk_overlap)
             IN  [ok |-> TRUE, path |-> path,
                  metas |-> [i \in DOMAIN b |->
                               ChunkMeta(0, path, [ver |-> f.ver, lo |-> b[i].lo, hi |-> b[i].hi],
                                         mtime)]]
FileResult(fs, path, mtime) ==
    LET f == fs[path]
    IN  IF ~f.exists THEN [ok |-> FALSE, path |-> path, metas |-> <<>>]
        ELSE IF f.blank THEN [ok |-> TRUE, path |-> path, metas |-> <<>>]
        ELSE LET b == ChunkBounds(HeaderLen(path) + f.len, chunk_size, chunk_overlap)
             IN  [ok |-> TRUE, path |-> path,
                  metas |-> [i \in DOMAIN b |->
                               ChunkMeta(0, path, [ver |-> f.ver, lo |-> b[i].lo, hi |-> b[i].hi],
                                         mtime)]]

RECURSIVE Collect(_, _, _)
\* step 2: the loop over file_results: `res?`, delete_by_path, accumulate.
\* Result: [db, ok, metas]
Collect(d, results, metas) ==
    IF results = <<>> THEN [db |-> d, ok |-> TRUE, metas |-> metas]
    ELSE LET res == Head(results)
         IN  IF ~res.ok THEN [db |-> d, ok |-> FALSE, metas |-> metas]
             ELSE Collect(delete_by_path(d, res.path), Tail(results), metas \o res.metas)

\* process_batch on one group (a sequence of [path, mtime]) with the files as they
\* are now.  embed_ok: engine.embed returned Ok for every sub-batch (and then, by its
\* contract, one vector per text).  Result: [db, ok]
process_batch(d, group, fs, embed_ok, reserve_ok, fail_at) ==
    LET results == [i \in DOMAIN group |-> FileResult(fs, group[i].path, group[i].mtime)]
        c == Collect(d, results, <<>>)
    IN  IF ~c.ok THEN [db |-> c.db, ok |-> FALSE]
        ELSE IF c.metas = <<>> THEN [db |-> c.db, ok |-> TRUE]
        ELSE IF ~embed_ok THEN [db |-> c.db, ok |-> FALSE]
        ELSE insert_chunks(c.db, c.metas, Len(c.metas), reserve_ok, fail_at)

---------------------------------------------------------------------------
(* search.rs: the ranker.  Distances and scores are in tenths: 0.7 is 7. *)

SearchLimit == 20     \* db.search(&query_vector, 20)
FilenameBoost == 7    \* score -= 0.7
Threshold == 12       \* r.score < 1.2
MaxResults == 5       \* .take(5)

\* char::to_lowercase on the characters of the model
Lower(c) == CASE c = "A" -> "a" [] c = "P" -> "p" [] OTHER -> c

\* str::to_lowercase
to_lowercase(s) == [i \in DOMAIN s |-> Lower(s[i])]

\* the UTF-8 length of a character
Utf8Len(c) == IF c = "e'" THEN 2 ELSE 1

RECURSIVE ByteLen(_)
\* String::len: bytes, not code points
ByteLen(s) == IF s = <<>> THEN 0 ELSE Utf8Len(Head(s)) + ByteLen(Tail(s))

RECURSIVE SplitFrom(_, _, _)
\* str::split_whitespace: the maximal runs of non-whitespace characters
SplitFrom(s, word, acc) ==
    IF s = <<>> THEN (IF word = <<>> THEN acc ELSE Append(acc, word))
    ELSE IF Head(s) = " "
         THEN SplitFrom(Tail(s), <<>>, IF word = <<>> THEN acc ELSE Append(acc, word))
         ELSE SplitFrom(Tail(s), Append(word, Head(s)), acc)

split_whitespace(s) == SplitFrom(s, <<>>, <<>>)

\* str::contains
contains(hay, needle) ==
    \E i \in 0..(Len(hay) - Len(needle)) : SubSeq(hay, i + 1, i + Len(needle)) = needle

\* query_words (search.rs:25-29)
QueryWords(query) == split_whitespace(to_lowercase(query))

\* the filename boost test (search.rs:36-43)
NameMatches(query_words, filename) ==
    \E k \in DOMAIN query_words :
        ByteLen(query_words[k]) > 2 /\ contains(to_lowercase(filename), query_words[k])

\* the working score of one match
Score(distance, query_words, filename) ==
    IF NameMatches(query_words, filename) THEN distance - FilenameBoost ELSE distance

RECURSIVE SortedBy(_, _)
\* the keys of a distance map in ascending order of distance (ties: by key)
SortedBy(keys, dist) ==
    IF keys = {} THEN <<>>
    ELSE LET k == CHOOSE x \in keys : \A y \in keys :
                      dist[x] < dist[y] \/ (dist[x] = dist[y] /\ x <= y)
         IN  <<[key |-> k, distance |-> dist[k]]>> \o SortedBy(keys \ {k}, dist)

\* Database::search: up to `limit` (key, distance) pairs of the index, nearest first;
\* dist is the distance of every indexed vector to the query vector
Search(d, dist, limit) ==
    LET all == SortedBy(d.index, dist) IN SubSeq(all, 1, Min(limit, Len(all)))

RECURSIVE MutFileMapLast(_, _, _, _)
MutFileMapLast(matches, chunks, query_words, map) ==
    IF matches = <<>> THEN map
    ELSE LET m == Head(matches)
             hit == {i \in DOMAIN chunks : chunks[i].id = m.key}
         IN  IF hit = {} THEN MutFileMapLast(Tail(matches), chunks, query_words, map)
             ELSE LET meta == chunks[CHOOSE i \in hit : \A j \in hit : i <= j]
                      score == Score(m.distance, query_words, meta.filename)
                  IN  MutFileMapLast(Tail(matches), chunks, query_words,
                                     [p \in DOMAIN map \cup {meta.path} |->
                                         IF p = meta.path THEN score ELSE map[p]])

RECURSIVE FileMap(_, _, _, _)
\* the loop over matches (search.rs:31-56): file_map as a function path -> score
FileMap(matches, chunks, query_words, map) ==
    IF matches = <<>> THEN map
    ELSE LET m == Head(matches)
             hit == {i \in DOMAIN chunks : chunks[i].id = m.key}
         IN  IF hit = {} THEN FileMap(Tail(matches), chunks, query_words, map)
             ELSE LET meta == chunks[CHOOSE i \in hit : \A j \in hit : i <= j]
                      score == Score(m.distance, query_words, meta.filename)
                  IN  IF meta.path \notin DOMAIN map \/ score < map[meta.path]
                      THEN FileMap(Tail(matches), chunks, query_words,
                                   [p \in DOMAIN map \cup {meta.path} |->
                                       IF p = meta.path THEN score ELSE map[p]])
                      ELSE FileMap(Tail(matches), chunks, query_words, map)

RECURSIVE SortedOrders(_, _)
\* file_map.into_values() then the stable sort_by on score: every order of the
\* entries that is ascending in score (a HashMap iterates in no particular order)
SortedOrders(paths, map) ==
    IF paths = {} THEN {<<>>}
    ELSE LET least == {p \in paths : \A q \in paths : map[p] <= map[q]}
         IN  UNION {{<<[path |-> p, score |-> map[p]]>> \o t :
                        t \in SortedOrders(paths \ {p}, map)} : p \in least}

\* .filter(|r| r.score < 1.2)
FilterConfident(sorted) == SelectSeqBy(sorted, {r \in Range(sorted) : r.score < Threshold})

\* .take(5)
MutTakeAll(s) == s
Take(s) == SubSeq(s, 1, Min(MaxResults, Len(s)))

\* run_search from the matches on: the results it can return
Rank(matches, chunks, query) ==
    LET map == FileMap(matches, chunks, QueryWords(query), <<>>)
    IN  {Take(FilterConfident(sorted)) : sorted \in SortedOrders(DOMAIN map, map)}

\* run_search: the results it can return for a query whose vector lies at dist
run_search(query, d, dist) == Rank(Search(d, dist, SearchLimit), d.chunks, query)

NoSearch == [query |-> <<>>, matches |-> <<>>, results |-> <<>>]

---------------------------------------------------------------------------
(* The store on its own: any sequence of open, insert, delete, save *)

DbPaths == {MdPath(<<>>, <<"t", "e", "s", "t">>), MdPath(<<>>, <<"a", "p", "p">>)}

DbTexts == {[ver |-> 1, lo |-> 0, hi |-> 11]}

\* the choices of the environment that a specification lets happen:
\*   kinds     the contents an editor writes         writable   the files editors write
\*   removable the files that get deleted
\*   events    the events the monitor is sent        written    how far db.save() gets
\*   embed     the outcomes of engine.embed          reserve    those of index.reserve
\*   fail_at   the index.add made to fail (0: none)
\*   flags     the --index and --force flags of a command line
\*   max_id    the ids the store hands out
NoCfg == [kinds |-> {}, writable |-> {}, removable |-> {}, events |-> {}, written |-> {}, embed |-> {},
          reserve |-> {}, fail_at |-> {}, flags |-> {}, max_id |-> 0]

EmptyDisk == [index |-> {}, chunks |-> {}]

EmptyDb == [index |-> {}, chunks |-> <<>>, next_id |-> 0]

Idle ==
    /\ files = <<>>
    /\ clock = 0
    /\ pc = <<>>
    /\ loc = <<>>
    /\ lock = {}
    /\ last_sync_time = {}
    /\ search = NoSearch
    /\ hist = <<>>
    /\ cfg = NoCfg

\* what the store on its own leaves alone, the record of the last call apart
dbEnv == <<files, clock, pc, loc, lock, last_sync_time, search, cfg>>

\* the last call made on the store: its name, its path, whether it returned Ok,
\* and for an insert what the caller passed and what the store held before it.
\* A delete that directly follows an insert of the same path keeps the figures
\* of that insert (after = "insert"), so that the pair can be compared.
DbCall(op, path, ok, n, nvec, d) ==
    [op |-> op, path |-> path, ok |-> ok, n |-> n, nvec |-> nvec,
     rows |-> Len(d.chunks), size |-> Cardinality(d.index),
     had |-> \E i \in DOMAIN d.chunks : {d.chunks[i].path} = path,
     after |-> ""]

DbInit ==
    /\ disk = EmptyDisk
    /\ db = Open(EmptyDisk)
    /\ meta_file = {}
    /\ files = <<>>
    /\ clock = 0
    /\ pc = <<>>
    /\ loc = <<>>
    /\ lock = {}
    /\ last_sync_time = {}
    /\ search = NoSearch
    /\ hist = DbCall("open", {}, TRUE, 0, 0, EmptyDb)
    /\ cfg = NoCfg

\* a caller's metas: n fragments of one path, ids not yet assigned
MetasOf(path, text, n) == [i \in 1..n |-> ChunkMeta(0, path, text, 0)]

DbInsert ==
    \E path \in DbPaths, text \in DbTexts, n \in 0..MaxIns, nvec \in 0..MaxIns,
       reserve_ok \in BOOLEAN, fail_at \in 0..MaxIns :
        LET r == insert_chunks(db, MetasOf(path, text, n), nvec, reserve_ok, fail_at)
        IN  /\ Len(db.chunks) + n <= MaxChunks
            /\ db.next_id + Min(n, nvec) <= MaxId
            /\ fail_at <= Min(n, nvec)
            /\ db' = r.db
            /\ hist' = DbCall("insert", {path}, r.ok, n, nvec, db)
            /\ UNCHANGED <<disk, meta_file, dbEnv>>

DbDelete ==
    \E path \in DbPaths :
        /\ db' = delete_by_path(db, path)
        /\ hist' = IF hist.op = "insert" /\ hist.path = {path}
                   THEN [hist EXCEPT !.op = "delete", !.after = "insert"]
                   ELSE DbCall("delete", {path}, TRUE, 0, 0, EmptyDb)
        /\ UNCHANGED <<disk, meta_file, dbEnv>>

DbSave ==
    \E written \in 0..2 :
        /\ disk' = Save(db, disk, written)
        /\ hist' = DbCall("save", {}, written = 2, 0, 0, EmptyDb)
        /\ UNCHANGED <<db, meta_file, dbEnv>>

\* a new process opens the location: the previous instance is gone
DbOpen ==
    /\ db' = Open(disk)
    /\ hist' = [DbCall("open", {}, TRUE, 0, 0, EmptyDb)
                    EXCEPT !.after = IF hist.op = "save" /\ hist.ok THEN "save" ELSE ""]
    /\ UNCHANGED <<disk, meta_file, dbEnv>>

DbNext == DbInsert \/ DbDelete \/ DbSave \/ DbOpen

SpecDb == DbInit /\ [][DbNext]_vars

---------------------------------------------------------------------------
(* The ranker on its own: a store is built, then queried *)

SearchStems ==
    << <<"a", "p", "p">>, <<"x", "a">>, <<"A", "p", "p", "s">>, <<"p", "a">>,
       <<"e'", "a", "x">>, <<"a", "x">>, <<"p", "x">>, <<"x", "p">> >>

SearchPath(k) == MdPath(<<>>, SearchStems[k])

\* "APP xa", "ap x", "app", and "e'a": two characters, three bytes
Queries ==
    { <<"A", "P", "P", " ", "x", "a">>, <<"a", "p", " ", "x">>, <<"a", "p", "p">>,
      <<"e'", "a">> }

\* cosine distances in tenths: near, and just at the threshold
Dists == {5, 12}

SearchText == [ver |-> 1, lo |-> 0, hi |-> 1]

SearchInit ==
    /\ disk = EmptyDisk
    /\ db = Open(EmptyDisk)
    /\ meta_file = {}
    /\ Idle

\* the documents of the store so far, numbered in the order they were added
DocsIn(d) == {k \in DOMAIN SearchStems : \E i \in DOMAIN d.chunks : d.chunks[i].path = SearchPath(k)}

\* one more document, of one or two fragments (the second add may fail);
\* the store is built first and queried once
SInsert ==
    /\ search = NoSearch
    /\ \E k \in DOMAIN SearchStems, n \in 1..2, fail_at \in {0, 2} :
        LET r == insert_chunks(db, MetasOf(SearchPath(k), SearchText, n), n, TRUE, fail_at)
        IN  /\ Len(db.chunks) + n <= MaxSearchChunks
            /\ Cardinality(db.index) + n <= MaxSearchChunks
            /\ fail_at <= n
            /\ k = Cardinality(DocsIn(db)) + 1
            /\ db' = r.db
            /\ UNCHANGED <<disk, meta_file, files, clock, pc, loc, lock, last_sync_time, search, hist, cfg>>

SSearch ==
    /\ search = NoSearch
    /\ \E query \in Queries, dist \in [db.index -> Dists] :
        \E results \in run_search(query, db, dist) :
            /\ search' = [query |-> query, matches |-> Search(db, dist, SearchLimit),
                          results |-> results]
            /\ UNCHANGED <<db, disk, meta_file, files, clock, pc, loc, lock, last_sync_time, hist, cfg>>

SearchNext == SInsert \/ SSearch

SpecSearch == SearchInit /\ [][SearchNext]_vars

---------------------------------------------------------------------------
(* The vault and the clock *)

VaultOrder == << MdPath(<<>>, <<"a", "p", "p">>), MdPath(<<"n">>, <<"x">>) >>

VaultPaths == Range(VaultOrder)

\* notes inside directories with an ignored name, directly under the root and deeper;
\* the whole tree in the order the walk visits it
HiddenOrder == << MdPath(<<".obsidian">>, <<"x">>), MdPath(<<"n", "templates">>, <<"x">>) >>
TreeOrder == VaultOrder \o HiddenOrder

\* contents a file can be given: [len, blank]
Kinds == { [len |-> 0, blank |-> TRUE], [len |-> 30, blank |-> FALSE],
           [len |-> 1000, blank |-> FALSE] }

File(exists, ver, kind, mtime) ==
    [exists |-> exists, ver |-> ver, len |-> kind.len, blank |-> kind.blank, mtime |-> mtime]

NoHist == [kind |-> "none", ver |-> 0, len |-> 0, blank |-> TRUE]

\* the history with the entry of p replaced (nothing is kept where none is tracked)
HistSet(h, p, v) == [q \in DOMAIN h |-> IF q = p THEN v ELSE h[q]]

\* an editor writes a file: a new version, stamped with a fresh instant
EnvWrite ==
    \E p \in cfg.writable, kind \in cfg.kinds :
        /\ files[p].ver < MaxVer
        /\ clock < MaxClock
        /\ clock' = clock + 1
        /\ files' = [files EXCEPT ![p] = File(TRUE, files[p].ver + 1, kind, clock + 1)]

\* a file is deleted from the vault
EnvRemove ==
    \E p \in cfg.removable :
        /\ files[p].exists
        /\ files' = [files EXCEPT ![p].exists = FALSE]
        /\ UNCHANGED clock

\* time passes
Tick ==
    /\ clock < MaxClock
    /\ clock' = clock + 1
    /\ UNCHANGED files

---------------------------------------------------------------------------
(* index.rs: the scan and the groups of a pass *)

\* config.rs: IGNORE_FOLDERS
IGNORE_FOLDERS == {".obsidian", ".git", ".stfolder", "templates"}

\* filter_entry: the walk does not enter a directory whose name is an ignored one
Ignored(path) == \E i \in DOMAIN path.dirs : path.dirs[i] \in IGNORE_FOLDERS

\* the skip test of the scan (index.rs:146-150, 247-251)
MutSkippedBelow(mtime, last_sync) == \E last \in last_sync : mtime < last
Skipped(mtime, last_sync) == \E last \in last_sync : mtime <= last

RECURSIVE ScanFrom(_, _, _)
\* the WalkDir loop: the (path, mtime) of every .md file not skipped
ScanFrom(order, fs, last_sync) ==
    IF order = <<>> THEN <<>>
    ELSE LET path == Head(order)
             rest == ScanFrom(Tail(order), fs, last_sync)
         IN  IF \/ Ignored(path)
                \/ ~fs[path].exists
                \/ path.ext # "md"
                \/ Skipped(fs[path].mtime, last_sync)
             THEN rest
             ELSE <<[path |-> path, mtime |-> fs[path].mtime]>> \o rest

\* last_sync as full_index and run_index read it (index.rs:119-125, 220-226)
LastSync(force, meta) == IF ~force /\ meta # {} THEN meta ELSE {}

\* paths_to_index.chunks(file_batch_size): the first group and the rest
FirstGroup(todo) == SubSeq(todo, 1, Min(FileBatchSize, Len(todo)))
RestGroups(todo) == SubSeq(todo, Min(FileBatchSize, Len(todo)) + 1, Len(todo))

\* history of a group: what process_batch read when it returned Ok, "failed" otherwise
HistAfter(h, group, fs, ok) ==
    [p \in DOMAIN h |->
        IF \E i \in DOMAIN group : group[i].path = p
        THEN IF ok THEN [kind |-> "resync", ver |-> fs[p].ver, len |-> fs[p].len,
                         blank |-> fs[p].blank]
             ELSE [NoHist EXCEPT !.kind = "failed"]
        ELSE h[p]]

---------------------------------------------------------------------------
(* The daemon: request workers, the change monitor, a reindex thread.  Each    *)
(* unit's operation is cut where it takes the lock and where it blocks; what    *)
(* it does between two such points is one step.                                 *)

Workers == {"w1", "w2"}
Mon == "mon"
Rx == "rx"
Cli == "cli"
Units == Workers \cup {Mon, Rx}

NoPath == MdPath(<<>>, <<>>)

Loc0 == [query |-> <<>>, results |-> <<>>, kind |-> "none", todo |-> <<>>,
         path |-> NoPath, mtime |-> 0, start |-> 0, selected |-> {}, saved |-> FALSE,
         force |-> FALSE, index |-> FALSE, metas |-> <<>>]

DaemonQueries == { <<"a", "p", "p">> }
DaemonDists == {5}

\* notify events: a kind and the paths it names
Events ==
    [kind : {"modify", "remove"}, paths : {<<p>> : p \in VaultPaths} \cup {VaultOrder}]

\* run_daemon: the store is opened, the manager built, the threads started
Start(units) ==
    /\ disk = EmptyDisk
    /\ db = Open(EmptyDisk)
    /\ meta_file = {}
    /\ files = [p \in VaultPaths |-> File(TRUE, 1, [len |-> 30, blank |-> FALSE], 0)]
    /\ clock = 0
    /\ pc = [u \in units |-> "idle"]
    /\ loc = [u \in units |-> Loc0]
    /\ lock = {}
    /\ last_sync_time = {}
    /\ search = NoSearch

\* Mutex::lock returns once no other guard exists
MutLockFree(u) == TRUE
LockFree(u) == lock = {}

\* the guard of u, if it has one, is dropped (at drop(db), or where the function returns)
MutReleasedOnlyByMon(u) == IF u = Mon THEN lock \ {u} ELSE lock
Released(u) == lock \ {u}

Goto(u, label) == pc' = [pc EXCEPT ![u] = label]

\* the thread's function returns
Return(u) ==
    /\ pc' = [pc EXCEPT ![u] = "idle"]
    /\ loc' = [loc EXCEPT ![u] = Loc0]
    /\ lock' = Released(u)

fileVars == <<files, clock>>
storeVars == <<db, disk, meta_file, last_sync_time, hist>>

(* ipc.rs: handle_client *)

\* start_server: a connection is accepted and handed to a new thread
Accept(w) ==
    /\ pc[w] = "idle"
    /\ Goto(w, "hc_read")
    /\ UNCHANGED <<storeVars, fileVars, loc, lock, search, cfg>>

\* read_line and serde_json::from_str (ipc.rs:73-77): a request, or Err and return
HcRead(w) ==
    /\ pc[w] = "hc_read"
    /\ \/ \E query \in DaemonQueries :
            /\ Goto(w, "hc_lock")
            /\ loc' = [loc EXCEPT ![w].query = query]
            /\ UNCHANGED lock
       \/ Return(w)
    /\ UNCHANGED <<storeVars, fileVars, search, cfg>>

\* manager.db.lock() (ipc.rs:79)
HcLock(w) ==
    /\ pc[w] = "hc_lock"
    /\ LockFree(w)
    /\ lock' = lock \cup {w}
    /\ Goto(w, "hc_search")
    /\ UNCHANGED <<storeVars, fileVars, loc, search, cfg>>

\* run_search (ipc.rs:82): Err returns; Ok goes on to write the response
HcSearch(w) ==
    /\ pc[w] = "hc_search"
    /\ \/ \E dist \in [db.index -> DaemonDists] :
          \E results \in run_search(loc[w].query, db, dist) :
            /\ Goto(w, "hc_write")
            /\ loc' = [loc EXCEPT ![w].results = results]
            /\ UNCHANGED lock
       \/ Return(w)
    /\ UNCHANGED <<storeVars, fileVars, search, cfg>>

\* write_all and flush (ipc.rs:88-90), Ok or Err, then the return: `db`, the guard,
\* lives to the end of handle_client and is dropped there
HcWrite(w) ==
    /\ pc[w] = "hc_write"
    /\ Return(w)
    /\ UNCHANGED <<storeVars, fileVars, search, cfg>>

(* watcher.rs: the event loop and handle_event *)

\* `if let Err(e) = manager.index_file(..) { eprintln!(..) }` and the same for
\* remove_file (watcher.rs:46-54): where handle_event goes on, Ok or Err
MutStopOnErr(ok) == IF ok THEN "ev_next" ELSE "stopped"
AfterHandle(ok) == "ev_next"

\* `for event in rx`: the next event is taken
MonTake ==
    /\ pc[Mon] = "idle"
    /\ \E ev \in cfg.events :
        loc' = [loc EXCEPT ![Mon].kind = ev.kind, ![Mon].todo = ev.paths]
    /\ Goto(Mon, "ev_next")
    /\ UNCHANGED <<storeVars, fileVars, lock, search, cfg>>

\* `for path in event.paths`: index_file up to its lock (fs::metadata, Err on a file
\* that is gone), or remove_file up to its lock (strip_prefix)
MonNext ==
    /\ pc[Mon] = "ev_next"
    /\ IF loc[Mon].todo = <<>>
       THEN /\ Goto(Mon, "idle")
            /\ loc' = [loc EXCEPT ![Mon] = Loc0]
       ELSE LET path == Head(loc[Mon].todo)
                rest == Tail(loc[Mon].todo)
            IN  IF path.ext # "md" \/ (loc[Mon].kind = "modify" /\ ~files[path].exists)
                THEN /\ loc' = [loc EXCEPT ![Mon].todo = rest, ![Mon].saved = FALSE]
                     /\ UNCHANGED pc
                ELSE IF loc[Mon].kind = "modify"
                THEN /\ loc' = [loc EXCEPT ![Mon].todo = rest, ![Mon].path = path,
                                           ![Mon].mtime = files[path].mtime,
                                           ![Mon].saved = FALSE]
                     /\ Goto(Mon, "if_lock")
                ELSE /\ loc' = [loc EXCEPT ![Mon].todo = rest, ![Mon].path = path,
                                           ![Mon].saved = FALSE]
                     /\ Goto(Mon, "rf_lock")
    /\ UNCHANGED <<storeVars, fileVars, lock, search, cfg>>

\* self.db.lock() of index_file (index.rs:191) and of remove_file (index.rs:204)
MonLock ==
    /\ pc[Mon] \in {"if_lock", "rf_lock"}
    /\ LockFree(Mon)
    /\ lock' = lock \cup {Mon}
    /\ Goto(Mon, IF pc[Mon] = "if_lock" THEN "if_body" ELSE "rf_body")
    /\ UNCHANGED <<storeVars, fileVars, loc, search, cfg>>

\* index_file under the lock (index.rs:193-199): process_batch(..)?, db.save()?,
\* drop(db), update_status(); then back to handle_event's loop, which looks at
\* the Result (kept in `saved`: Ok or Err)
IfBody ==
    /\ pc[Mon] = "if_body"
    /\ \E embed_ok \in cfg.embed, reserve_ok \in cfg.reserve, fail_at \in cfg.fail_at,
          written \in cfg.written :
        LET group == <<[path |-> loc[Mon].path, mtime |-> loc[Mon].mtime]>>
            r == process_batch(db, group, files, embed_ok, reserve_ok, fail_at)
        IN  /\ r.db.next_id <= cfg.max_id
            /\ db' = r.db
            /\ hist' = HistAfter(hist, group, files, r.ok)
            /\ IF r.ok
               THEN /\ disk' = Save(r.db, disk, written)
                    /\ last_sync_time' = IF written = 2 THEN {clock} ELSE last_sync_time
               ELSE /\ written = CHOOSE x \in cfg.written : TRUE
                    /\ UNCHANGED <<disk, last_sync_time>>
            /\ Goto(Mon, AfterHandle(r.ok /\ written = 2))
            /\ loc' = [loc EXCEPT ![Mon].saved = r.ok /\ written = 2]
    /\ lock' = Released(Mon)
    /\ UNCHANGED <<meta_file, fileVars, search, cfg>>

\* remove_file under the lock (index.rs:205-207): delete_by_path, db.save()?, return
RfBody ==
    /\ pc[Mon] = "rf_body"
    /\ \E written \in cfg.written :
        /\ db' = delete_by_path(db, loc[Mon].path)
        /\ disk' = Save(db', disk, written)
        /\ hist' = HistSet(hist, loc[Mon].path,
                           [NoHist EXCEPT !.kind = IF written = 2 THEN "remove" ELSE "failed"])
        /\ Goto(Mon, AfterHandle(written = 2))
        /\ loc' = [loc EXCEPT ![Mon].saved = (written = 2)]
    /\ lock' = Released(Mon)
    /\ UNCHANGED <<meta_file, last_sync_time, fileVars, search, cfg>>

\* index_file under the lock, cut where process_batch has deleted the old rows
\* of the file and has not inserted the new ones: steps 1 and 2 of process_batch
\* (index.rs:339-395), then the early return on no fragment with db.save()
IfCollect ==
    /\ pc[Mon] = "if_body"
    /\ \E written \in cfg.written :
        LET res == FileResult(files, loc[Mon].path, loc[Mon].mtime)
            c   == Collect(db, <<res>>, <<>>)
        IN  /\ db' = c.db
            /\ IF c.ok /\ c.metas # <<>>
               THEN /\ written = CHOOSE x \in cfg.written : TRUE
                    /\ loc' = [loc EXCEPT ![Mon].metas = c.metas]
                    /\ Goto(Mon, "if_insert")
                    /\ UNCHANGED <<disk, last_sync_time, lock>>
               ELSE /\ IF c.ok
                       THEN /\ disk' = Save(c.db, disk, written)
                            /\ last_sync_time' = IF written = 2 THEN {clock} ELSE last_sync_time
                       ELSE /\ written = CHOOSE x \in cfg.written : TRUE
                            /\ UNCHANGED <<disk, last_sync_time>>
                    /\ Goto(Mon, AfterHandle(c.ok /\ written = 2))
                    /\ lock' = Released(Mon)
                    /\ loc' = [loc EXCEPT ![Mon].saved = c.ok /\ written = 2]
    /\ UNCHANGED <<meta_file, hist, fileVars, search, cfg>>

\* steps 3 and 4 of process_batch (index.rs:401-422), db.save()?, drop(db),
\* update_status() (index.rs:196-198)
IfInsert ==
    /\ pc[Mon] = "if_insert"
    /\ \E embed_ok \in cfg.embed, reserve_ok \in cfg.reserve, fail_at \in cfg.fail_at,
          written \in cfg.written :
        LET metas == loc[Mon].metas
            r == IF embed_ok THEN insert_chunks(db, metas, Len(metas), reserve_ok, fail_at)
                 ELSE [db |-> db, ok |-> FALSE]
        IN  /\ r.db.next_id <= cfg.max_id
            /\ db' = r.db
            /\ IF r.ok
               THEN /\ disk' = Save(r.db, disk, written)
                    /\ last_sync_time' = IF written = 2 THEN {clock} ELSE last_sync_time
               ELSE /\ written = CHOOSE x \in cfg.written : TRUE
                    /\ UNCHANGED <<disk, last_sync_time>>
            /\ Goto(Mon, AfterHandle(r.ok /\ written = 2))
            /\ loc' = [loc EXCEPT ![Mon].metas = <<>>, ![Mon].saved = r.ok /\ written = 2]
    /\ lock' = Released(Mon)
    /\ UNCHANGED <<meta_file, hist, fileVars, search, cfg>>

(* index.rs: a sync pass, full_index in the daemon and run_index in a command *)

\* last_sync and the scan (index.rs:117-152, 218-253): the files to index
Todo(force) == ScanFrom(SelectSeqBy(TreeOrder, DOMAIN files), files, LastSync(force, meta_file))

\* what a pass knows once it has scanned
PassLoc(todo, force) ==
    [Loc0 EXCEPT !.kind = "pass", !.todo = todo, !.start = clock, !.force = force,
                 !.selected = {todo[i].path : i \in DOMAIN todo}]

\* full_index(true), as the tray's "reindex" item runs it (main.rs:232-238), up to
\* its lock; no file, and the pass returns Ok (index.rs:154-157)
FiScan ==
    /\ pc[Rx] = "idle"
    /\ IF Todo(TRUE) = <<>>
       THEN UNCHANGED <<pc, loc>>
       ELSE /\ loc' = [loc EXCEPT ![Rx] = PassLoc(Todo(TRUE), TRUE)]
            /\ Goto(Rx, "fi_lock")
    /\ UNCHANGED <<storeVars, fileVars, lock, search, cfg>>

\* self.db.lock() (index.rs:161)
FiLock ==
    /\ pc[Rx] = "fi_lock"
    /\ LockFree(Rx)
    /\ lock' = lock \cup {Rx}
    /\ Goto(Rx, "fi_batch")
    /\ UNCHANGED <<storeVars, fileVars, loc, search, cfg>>

\* one group: process_batch(..)? (index.rs:164-172, 263-266)
FiBatch(u) ==
    /\ pc[u] = "fi_batch"
    /\ \E embed_ok \in cfg.embed, reserve_ok \in cfg.reserve, fail_at \in cfg.fail_at :
        LET group == FirstGroup(loc[u].todo)
            rest  == RestGroups(loc[u].todo)
            r == process_batch(db, group, files, embed_ok, reserve_ok, fail_at)
        IN  /\ r.db.next_id <= cfg.max_id
            /\ db' = r.db
            /\ hist' = HistAfter(hist, group, files, r.ok)
            /\ IF r.ok
               THEN /\ loc' = [loc EXCEPT ![u].todo = rest]
                    /\ Goto(u, IF rest = <<>> THEN "fi_save" ELSE "fi_batch")
                    /\ UNCHANGED lock
               ELSE Return(u)
    /\ UNCHANGED <<disk, meta_file, last_sync_time, fileVars, search, cfg>>

\* where a pass stands after db.save()?: on to the watermark, or returned with Err
MutAfterSaveIgnoreErr(written) == "meta"
AfterSave(written) == IF written = 2 THEN "meta" ELSE "return"

\* db.save()?; drop(db) (index.rs:174-175, 268)
FiSave(u) ==
    /\ pc[u] = "fi_save"
    /\ \E written \in cfg.written :
        /\ disk' = Save(db, disk, written)
        /\ IF AfterSave(written) = "meta"
           THEN /\ Goto(u, "fi_meta")
                /\ loc' = [loc EXCEPT ![u].saved = (written = 2)]
                /\ lock' = Released(u)
           ELSE Return(u)
    /\ UNCHANGED <<db, meta_file, last_sync_time, hist, fileVars, search, cfg>>

\* Meta.last_sync of the watermark a pass writes (index.rs:177-179, 270-272):
\* Utc::now() at the write
NewWatermark(start, now) == now

\* fs::write(meta_file, ..)? and the return: of full_index after update_status()
\* (index.rs:180-184), of run_index to main, which goes on to the search
\* (index.rs:273-276, main.rs:123-127)
FiMeta(u) ==
    /\ pc[u] = "fi_meta"
    /\ \/ /\ meta_file' = {NewWatermark(loc[u].start, clock)}
          /\ last_sync_time' = IF u = Rx THEN {clock} ELSE last_sync_time
          /\ IF u = Cli
             THEN /\ Goto(u, "cl_search")
                  /\ UNCHANGED <<loc, lock>>
             ELSE Return(u)
       \/ /\ UNCHANGED <<meta_file, last_sync_time>>
          /\ Return(u)
    /\ UNCHANGED <<db, disk, hist, fileVars, search, cfg>>

unitVars == <<pc, loc, lock>>

DaemonCfg ==
    [kinds |-> {}, writable |-> {}, removable |-> VaultPaths,
     events |-> [kind : {"modify", "remove"}, paths : {<<p>> : p \in VaultPaths}],
     written |-> {0, 2}, embed |-> BOOLEAN, reserve |-> {TRUE}, fail_at |-> {0, 1},
     flags |-> {}, max_id |-> MaxDaemonId]

DaemonInit == Start(Units) /\ hist = <<>> /\ cfg = DaemonCfg

DaemonEnv == EnvRemove /\ UNCHANGED <<storeVars, unitVars, search, cfg>>

DaemonNext ==
    \/ \E w \in Workers : Accept(w) \/ HcRead(w) \/ HcLock(w) \/ HcSearch(w) \/ HcWrite(w)
    \/ MonTake \/ MonNext \/ MonLock \/ IfBody \/ RfBody
    \/ FiScan \/ FiLock \/ FiBatch(Rx) \/ FiSave(Rx) \/ FiMeta(Rx)
    \/ DaemonEnv

SpecDaemon == DaemonInit /\ [][DaemonNext]_vars

---------------------------------------------------------------------------
(* The daemon's synchronisation alone: the monitor and a reindex thread over a  *)
(* vault that editors write to, with the history of each path kept.             *)

ResyncCfg ==
    [kinds |-> {k \in Kinds : k.len < 1000}, writable |-> {VaultOrder[1]},
     removable |-> {VaultOrder[1]}, events |-> {e \in Events : Len(e.paths) = 1},
     written |-> {0, 2}, embed |-> {TRUE}, reserve |-> {TRUE}, fail_at |-> {0, 1},
     flags |-> {}, max_id |-> MaxDaemonId]

ResyncInit ==
    /\ Start({Mon, Rx})
    /\ hist = [p \in VaultPaths |-> NoHist]
    /\ cfg = ResyncCfg

ResyncEnv == (EnvWrite \/ EnvRemove) /\ UNCHANGED <<storeVars, unitVars, search, cfg>>

ResyncNext ==
    \/ MonTake \/ MonNext \/ MonLock \/ IfBody \/ RfBody
    \/ FiScan \/ FiLock \/ FiBatch(Rx) \/ FiSave(Rx) \/ FiMeta(Rx)
    \/ ResyncEnv

SpecResync == ResyncInit /\ [][ResyncNext]_vars

---------------------------------------------------------------------------
(* The change monitor alone, sent events that name one path or two, over a     *)
(* vault whose files get deleted, with saves and batches that may fail.         *)

MonitorCfg ==
    [kinds |-> {}, writable |-> {}, removable |-> VaultPaths, events |-> Events,
     written |-> {0, 2}, embed |-> BOOLEAN, reserve |-> {TRUE}, fail_at |-> {0, 1},
     flags |-> {}, max_id |-> MaxDaemonId]

MonitorInit ==
    /\ Start({Mon})
    /\ hist = [p \in VaultPaths |-> NoHist]
    /\ cfg = MonitorCfg

MonitorEnv == EnvRemove /\ UNCHANGED <<storeVars, unitVars, search, cfg>>

MonitorNext == MonTake \/ MonNext \/ MonLock \/ IfBody \/ RfBody \/ MonitorEnv

SpecMonitor == MonitorInit /\ [][MonitorNext]_vars

---------------------------------------------------------------------------
(* A query next to the monitor and a reindex pass, the single-file resync cut  *)
(* between its delete and its insert.                                           *)

QueryUnits == {"w1", Mon, Rx}

QueryCfg ==
    [kinds |-> {}, writable |-> {}, removable |-> {VaultOrder[2]},
     events |-> {e \in Events : Len(e.paths) = 1},
     written |-> {0, 2}, embed |-> BOOLEAN, reserve |-> {TRUE}, fail_at |-> {0, 1},
     flags |-> {}, max_id |-> MaxDaemonId]

QueryInit == Start(QueryUnits) /\ hist = <<>> /\ cfg = QueryCfg

QueryEnv == EnvRemove /\ UNCHANGED <<storeVars, unitVars, search, cfg>>

QueryNext ==
    \/ Accept("w1") \/ HcRead("w1") \/ HcLock("w1") \/ HcSearch("w1") \/ HcWrite("w1")
    \/ MonTake \/ MonNext \/ MonLock \/ IfCollect \/ IfInsert \/ RfBody
    \/ FiScan \/ FiLock \/ FiBatch(Rx) \/ FiSave(Rx) \/ FiMeta(Rx)
    \/ QueryEnv

SpecQuery == QueryInit /\ [][QueryNext]_vars

---------------------------------------------------------------------------
(* main.rs: a command line run without a daemon (the cold start).  The store of  *)
(* the process is what Database::open reads; it is gone when the process ends.   *)

MutStaleAtDay(index, force, meta, now) ==
    index \/ force \/ meta = {} \/ \E last \in meta : now - last >= DayTicks

\* needs_sync (main.rs:109-117)
NeedsSync(index, force, meta, now) ==
    \/ index
    \/ force
    \/ meta = {}
    \/ \E last \in meta : now - last > DayTicks

\* Database::open, needs_sync, and run_index up to its first group (main.rs:103-124)
CliMain ==
    /\ pc[Cli] = "idle"
    /\ \E flags \in cfg.flags :
        /\ db' = Open(disk)
        /\ IF NeedsSync(flags.index, flags.force, meta_file, clock)
           THEN /\ loc' = [loc EXCEPT ![Cli] = [PassLoc(Todo(flags.force), flags.force)
                                                   EXCEPT !.index = flags.index]]
                /\ Goto(Cli, IF Todo(flags.force) = <<>> THEN "cl_search" ELSE "fi_batch")
           ELSE /\ Goto(Cli, "cl_search")
                /\ loc' = [loc EXCEPT ![Cli].index = flags.index, ![Cli].force = flags.force]
    /\ UNCHANGED <<disk, meta_file, last_sync_time, hist, fileVars, lock, search, cfg>>

\* the search, if a query was given, and the end of the process (main.rs:127-138)
CliSearch ==
    /\ pc[Cli] = "cl_search"
    /\ Return(Cli)
    /\ UNCHANGED <<storeVars, fileVars, search, cfg>>

\* the process is killed
CliCrash ==
    /\ pc[Cli] # "idle"
    /\ Return(Cli)
    /\ UNCHANGED <<storeVars, fileVars, search, cfg>>

SyncCfg ==
    [kinds |-> Kinds, writable |-> VaultPaths, removable |-> {VaultOrder[2]}, events |-> {},
     written |-> 0..2, embed |-> BOOLEAN, reserve |-> BOOLEAN, fail_at |-> 0..MaxIns,
     flags |-> [index : BOOLEAN, force : BOOLEAN], max_id |-> MaxSyncId]

SyncInit ==
    /\ Start({Cli})
    /\ hist = <<>>
    /\ cfg = SyncCfg

SyncEnv == (EnvWrite \/ EnvRemove \/ Tick) /\ UNCHANGED <<storeVars, unitVars, search, cfg>>

SyncNext ==
    \/ CliMain \/ FiBatch(Cli) \/ FiSave(Cli) \/ FiMeta(Cli) \/ CliSearch \/ CliCrash
    \/ SyncEnv

SpecSync == SyncInit /\ [][SyncNext]_vars

---------------------------------------------------------------------------
(* The chunker on its own: a text and a window are chosen, chunk is called *)

MaxTextLen == 12
MaxWindow == 4

\* a text by its number of code points and its number of UTF-8 bytes:
\* all of its characters take one byte, or all take two
Texts == {[chars |-> n, bytes |-> b * n] : n \in 0..MaxTextLen, b \in 1..2}

MutByteCount(text) == text.bytes
\* text.chars().collect::<Vec<char>>().len()
CharCount(text) == text.chars

\* Chunker { chunk_size, chunk_overlap }.chunk(text)
chunk(text, W, V) ==
    IF text.bytes = 0 THEN <<>> ELSE ChunkFrom(0, CharCount(text), W, V)

ChunkInit ==
    /\ \E text \in Texts, W \in 1..MaxWindow :
         \E V \in 0..(W - 1) :
            loc = [text |-> text, chunk_size |-> W, chunk_overlap |-> V]
    /\ pc = "start"
    /\ search = <<>>
    /\ db = EmptyDb
    /\ disk = EmptyDisk
    /\ meta_file = {}
    /\ files = <<>>
    /\ clock = 0
    /\ lock = {}
    /\ last_sync_time = {}
    /\ hist = <<>>
    /\ cfg = NoCfg

ChunkCall ==
    /\ pc = "start"
    /\ search' = chunk(loc.text, loc.chunk_size, loc.chunk_overlap)
    /\ pc' = "done"
    /\ UNCHANGED <<db, disk, meta_file, files, clock, loc, lock, last_sync_time, hist, cfg>>

ChunkNext == ChunkCall

SpecChunk == ChunkInit /\ [][ChunkNext]_vars

---------------------------------------------------------------------------
(* process_batch on its own: groups of one or two files of a vault that editors *)
(* rewrite, blank out and delete, with embed and index.add that may fail.       *)

MaxBatchId == 5

\* contents with a whitespace-only one of three characters
BatchKinds == Kinds \cup {[len |-> 3, blank |-> TRUE]}

\* the groups: every non-empty selection of the vault's files, in scan order
BatchGroups ==
    {SelectSeqBy(VaultOrder, keep) : keep \in (SUBSET VaultPaths) \ {{}}}

BatchInit ==
    /\ files = [p \in VaultPaths |-> File(TRUE, 1, [len |-> 30, blank |-> FALSE], 0)]
    /\ db = EmptyDb
    /\ hist = [p \in VaultPaths |-> NoHist]
    /\ loc = [ran |-> FALSE, ok |-> TRUE, group |-> <<>>, before |-> EmptyDb]
    /\ pc = "ready"
    /\ disk = EmptyDisk
    /\ meta_file = {}
    /\ clock = 0
    /\ lock = {}
    /\ last_sync_time = {}
    /\ search = NoSearch
    /\ cfg = NoCfg

batchEnv == <<disk, meta_file, clock, pc, lock, last_sync_time, search, cfg>>

\* an editor rewrites a file
BatchWrite ==
    \E p \in VaultPaths, kind \in BatchKinds :
        /\ files[p].ver < MaxVer
        /\ files' = [files EXCEPT ![p] = File(TRUE, files[p].ver + 1, kind, 0)]
        /\ UNCHANGED <<db, hist, loc, batchEnv>>

\* a file is deleted: read_to_string will fail on it
BatchRemove ==
    \E p \in VaultPaths :
        /\ files[p].exists
        /\ files' = [files EXCEPT ![p].exists = FALSE]
        /\ UNCHANGED <<db, hist, loc, batchEnv>>

\* process_batch(paths, ..) on a group (index.rs:332-425)
BatchRun ==
    \E paths \in BatchGroups, embed_ok \in BOOLEAN, fail_at \in 0..1 :
        LET group == [i \in DOMAIN paths |-> [path |-> paths[i], mtime |-> files[paths[i]].mtime]]
            r == process_batch(db, group, files, embed_ok, TRUE, fail_at)
        IN  /\ r.db.next_id <= MaxBatchId
            /\ db' = r.db
            /\ hist' = HistAfter(hist, group, files, r.ok)
            /\ loc' = [ran |-> TRUE, ok |-> r.ok, group |-> paths, before |-> db]
            /\ UNCHANGED <<files, batchEnv>>

BatchNext == BatchWrite \/ BatchRemove \/ BatchRun

SpecBatch == BatchInit /\ [][BatchNext]_vars

---------------------------------------------------------------------------
(* The monitor and a reindex pass over a tree that has notes inside ignored    *)
(* directories.                                                                 *)

MaxTreeId == 3
TreePaths == {VaultOrder[1]} \cup Range(HiddenOrder)

TreeCfg ==
    [kinds |-> {}, writable |-> {}, removable |-> {HiddenOrder[1]},
     events |-> [kind : {"modify", "remove"}, paths : {<<p>> : p \in TreePaths}],
     written |-> {0, 2}, embed |-> {TRUE}, reserve |-> {TRUE}, fail_at |-> {0},
     flags |-> {}, max_id |-> MaxTreeId]

\* run_daemon on an empty data directory, the vault holding one note and two hidden ones
TreeInit ==
    /\ disk = EmptyDisk
    /\ db = Open(EmptyDisk)
    /\ meta_file = {}
    /\ files = [p \in TreePaths |-> File(TRUE, 1, [len |-> 30, blank |-> FALSE], 0)]
    /\ clock = 0
    /\ pc = [u \in {Mon, Rx} |-> "idle"]
    /\ loc = [u \in {Mon, Rx} |-> Loc0]
    /\ lock = {}
    /\ last_sync_time = {}
    /\ search = NoSearch
    /\ hist = <<>>
    /\ cfg = TreeCfg

TreeEnv == EnvRemove /\ UNCHANGED <<storeVars, unitVars, search, cfg>>

TreeNext ==
    \/ MonTake \/ MonNext \/ MonLock \/ IfBody \/ RfBody
    \/ FiScan \/ FiLock \/ FiBatch(Rx) \/ FiSave(Rx) \/ FiMeta(Rx)
    \/ TreeEnv

SpecTree == TreeInit /\ [][TreeNext]_vars

---------------------------------------------------------------------------
(* The three mutexes of the daemon: SyncManager.db, .last_sync_time and
   .tray_handle.  Each operation is reduced to the lock() calls it makes and
   the places where the guards go out of scope, in program order. *)

Mutexes == {"db", "last_sync_time", "tray_handle"}
Acquire(m) == [op |-> "lock", m |-> m]
Drop(m) == [op |-> "drop", m |-> m]

\* refresh_tray_status: the last-sync guard lives in an inner block, the tray guard to the end
refresh_tray_status ==
    <<Acquire("last_sync_time"), Drop("last_sync_time"), Acquire("tray_handle"), Drop("tray_handle")>>

\* update_status: the time is stored inside a block, then the title is refreshed
update_status == <<Acquire("last_sync_time"), Drop("last_sync_time")>> \o refresh_tray_status

\* set_tray: the handle is stored inside a block, then the title is refreshed
set_tray == <<Acquire("tray_handle"), Drop("tray_handle")>> \o refresh_tray_status

\* index_file: lock, process_batch and save (either may return early with ?), drop(db), update_status
MutIndexFileStatusUnderLock(ok) ==
    IF ok THEN <<Acquire("db")>> \o update_status \o <<Drop("db")>> ELSE <<Acquire("db"), Drop("db")>>
IndexFileLocks(ok) ==
    <<Acquire("db"), Drop("db")>> \o (IF ok THEN update_status ELSE <<>>)

\* remove_file: lock, delete_by_path, save; the guard is dropped at the return
RemoveFileLocks == <<Acquire("db"), Drop("db")>>

\* full_index: nothing to index returns before the lock; a failing group or save returns with
\* the guard dropped; otherwise drop(db), the metadata record (may fail), update_status
FullIndexLocks(outcome) ==
    CASE outcome = "nothing" -> <<>>
      [] outcome = "failed" -> <<Acquire("db"), Drop("db")>>
      [] OTHER -> <<Acquire("db"), Drop("db")>> \o update_status

\* handle_client: the guard is taken after the request is read and lives to the return
HandleClientLocks == <<Acquire("db"), Drop("db")>>

MainUnit == "main"
StatusUnit == "status"
LockUnits == Workers \cup {Mon, Rx, StatusUnit, MainUnit}

\* what a unit may start next: main runs set_tray once; the others start after setup
Operations(u) ==
    CASE u = MainUnit -> {set_tray}
      [] u \in Workers -> {HandleClientLocks}
      [] u = Mon -> {IndexFileLocks(ok) : ok \in BOOLEAN} \cup {RemoveFileLocks}
      [] u = Rx -> {FullIndexLocks(o) : o \in {"nothing", "failed", "done"}} \ {<<>>}
      [] OTHER -> {refresh_tray_status}

LocksInit ==
    /\ pc = [u \in LockUnits |-> <<>>]
    /\ lock = [m \in Mutexes |-> {}]
    /\ loc = [u \in LockUnits |-> FALSE]
    /\ db = EmptyDb
    /\ disk = EmptyDisk
    /\ meta_file = {}
    /\ files = <<>>
    /\ clock = 0
    /\ last_sync_time = {}
    /\ search = <<>>
    /\ hist = <<>>
    /\ cfg = NoCfg

locksEnv == <<db, disk, meta_file, files, clock, last_sync_time, search, hist, cfg>>

\* setup: set_tray returns before the server, the watcher and the refresh thread are started
SetupDone == loc[MainUnit] /\ pc[MainUnit] = <<>>

\* a unit idle at its loop (a connection, an event, a click, the 60 s timer) starts an operation
LockBegin(u) ==
    /\ pc[u] = <<>>
    /\ IF u = MainUnit THEN ~loc[u] ELSE SetupDone
    /\ \E script \in Operations(u) : pc' = [pc EXCEPT ![u] = script]
    /\ loc' = [loc EXCEPT ![u] = TRUE]
    /\ UNCHANGED <<lock, locksEnv>>

\* Mutex::lock: blocks while another guard exists; a thread that holds the guard itself
\* never returns from it
LockAcquire(u) ==
    /\ pc[u] # <<>>
    /\ Head(pc[u]).op = "lock"
    /\ lock[Head(pc[u]).m] = {}
    /\ lock' = [lock EXCEPT ![Head(pc[u]).m] = {u}]
    /\ pc' = [pc EXCEPT ![u] = Tail(pc[u])]
    /\ UNCHANGED <<loc, locksEnv>>

\* the guard goes out of scope
LockDrop(u) ==
    /\ pc[u] # <<>>
    /\ Head(pc[u]).op = "drop"
    /\ lock' = [lock EXCEPT ![Head(pc[u]).m] = @ \ {u}]
    /\ pc' = [pc EXCEPT ![u] = Tail(pc[u])]
    /\ UNCHANGED <<loc, locksEnv>>

LocksNext == \E u \in LockUnits : LockBegin(u) \/ LockAcquire(u) \/ LockDrop(u)

\* a running thread that can take a free mutex or leave a scope eventually does
LocksFair == \A u \in LockUnits : SF_vars(LockAcquire(u)) /\ WF_vars(LockDrop(u))

SpecLocks == LocksInit /\ [][LocksNext]_vars /\ LocksFair

---------------------------------------------------------------------------
(* One store location over its lifetime: processes insert, delete, save and    *)
(* reopen it.  Every insert call brings fragments of a new generation, and the  *)
(* (id, generation) pairs that a completed save has put on disk are kept.       *)

MaxGen == 4         \* insert_chunks calls over the lifetime of the location

IdsInit ==
    /\ disk = EmptyDisk
    /\ db = Open(EmptyDisk)
    /\ hist = [gen |-> 0, persisted |-> {}]
    /\ meta_file = {}
    /\ files = <<>>
    /\ clock = 0
    /\ pc = <<>>
    /\ loc = <<>>
    /\ lock = {}
    /\ last_sync_time = {}
    /\ search = NoSearch
    /\ cfg = NoCfg

\* insert_chunks as process_batch calls it: one vector per fragment
IdsInsert ==
    \E path \in DbPaths, n \in 1..MaxIns, fail_at \in 0..MaxIns :
        LET text == [ver |-> hist.gen + 1, lo |-> 0, hi |-> 11]
            r == insert_chunks(db, MetasOf(path, text, n), n, TRUE, fail_at)
        IN  /\ hist.gen < MaxGen
            /\ Len(db.chunks) + n <= MaxChunks
            /\ fail_at <= n
            /\ db' = r.db
            /\ hist' = [hist EXCEPT !.gen = @ + 1]
            /\ UNCHANGED <<disk, meta_file, dbEnv>>

IdsDelete ==
    \E path \in DbPaths :
        /\ db' = delete_by_path(db, path)
        /\ UNCHANGED <<disk, hist, meta_file, dbEnv>>

\* Database::save; once both writes are done the rows of the store are on disk
IdsSave ==
    \E written \in 0..2 :
        /\ disk' = Save(db, disk, written)
        /\ hist' = IF written = 2
                   THEN [hist EXCEPT !.persisted =
                            @ \cup {[id |-> db.chunks[i].id, gen |-> db.chunks[i].text.ver] :
                                        i \in DOMAIN db.chunks}]
                   ELSE hist
        /\ UNCHANGED <<db, meta_file, dbEnv>>

\* a new process opens the location: the previous instance is gone
IdsOpen ==
    /\ db' = Open(disk)
    /\ UNCHANGED <<disk, hist, meta_file, dbEnv>>

IdsNext == IdsInsert \/ IdsDelete \/ IdsSave \/ IdsOpen

SpecIds == IdsInit /\ [][IdsNext]_vars

---------------------------------------------------------------------------
(* main.rs: a command-line search next to a daemon that runs or does not.  The  *)
(* client is its own process: what Database::open gives it is its own store     *)
(* (loc[Cli].store), over the same files as the daemon's.                       *)

Srv == "w1"
ClientUnits == {Cli, Srv, Mon}

\* the client's locals: its arguments, its end of the socket (none, request sent,
\* accepted by the daemon, response written, closed with nothing written), whether the
\* daemon accepted its connection, whether it has opened the store files, its store
ClientLoc0 ==
    [query |-> <<>>, index |-> FALSE, force |-> FALSE, conn |-> "none",
     accepted |-> FALSE, opened |-> FALSE, store |-> EmptyDb]

ClientCfg ==
    [kinds |-> {}, writable |-> {}, removable |-> {},
     events |-> {[kind |-> "modify", paths |-> <<VaultOrder[1]>>]},
     written |-> {0, 2}, embed |-> {TRUE}, reserve |-> {TRUE}, fail_at |-> {0},
     flags |-> [index : BOOLEAN, force : BOOLEAN], max_id |-> MaxDaemonId]

\* the daemon is running (its listener bound, its store opened) or there is none
ClientInit ==
    /\ disk = EmptyDisk
    /\ db = Open(EmptyDisk)
    /\ meta_file = {}
    /\ files = [p \in VaultPaths |-> File(TRUE, 1, [len |-> 30, blank |-> FALSE], 0)]
    /\ clock = 0
    /\ \E daemon \in {"idle", "down"} : pc = [u \in ClientUnits |-> IF u = Srv THEN daemon ELSE "idle"]
    /\ loc = [u \in ClientUnits |-> IF u = Cli THEN ClientLoc0 ELSE Loc0]
    /\ lock = {}
    /\ last_sync_time = {}
    /\ search = NoSearch
    /\ hist = <<>>
    /\ cfg = ClientCfg

DaemonUp == pc[Srv] # "down"

\* `obra <query>`: send_request connects and sends the request line (ipc.rs:28-35);
\* connect fails when nothing listens, and main goes on to the cold start
ClStart ==
    /\ pc[Cli] = "idle"
    /\ \E flags \in cfg.flags, query \in DaemonQueries :
        loc' = [loc EXCEPT ![Cli] =
                   [ClientLoc0 EXCEPT !.query = query, !.index = flags.index,
                                      !.force = flags.force,
                                      !.conn = IF DaemonUp THEN "request" ELSE "none",
                                      !.accepted = DaemonUp]]
    /\ Goto(Cli, IF DaemonUp THEN "cl_wait" ELSE "cl_open")
    /\ UNCHANGED <<storeVars, fileVars, lock, search, cfg>>

\* start_server: the connection is handed to a handler thread (ipc.rs:59-66)
SrvAccept ==
    /\ pc[Srv] = "idle"
    /\ loc[Cli].conn = "request"
    /\ loc' = [loc EXCEPT ![Cli].conn = "accepted"]
    /\ Goto(Srv, "hc_read")
    /\ UNCHANGED <<storeVars, fileVars, lock, search, cfg>>

\* the handler returns: its locals and its guard are dropped, and with them the stream
SrvReturn(conn) ==
    /\ pc' = [pc EXCEPT ![Srv] = "idle"]
    /\ loc' = [loc EXCEPT ![Srv] = Loc0, ![Cli].conn = conn]
    /\ lock' = Released(Srv)

\* read_line and from_str (ipc.rs:73-77)
SrvRead ==
    /\ pc[Srv] = "hc_read"
    /\ \/ /\ Goto(Srv, "hc_lock")
          /\ loc' = [loc EXCEPT ![Srv].query = loc[Cli].query]
          /\ UNCHANGED lock
       \/ SrvReturn("closed")
    /\ UNCHANGED <<storeVars, fileVars, search, cfg>>

\* run_search(..)? (ipc.rs:82): Err returns with nothing written
SrvSearch ==
    /\ pc[Srv] = "hc_search"
    /\ \/ \E dist \in [db.index -> DaemonDists] :
          \E results \in run_search(loc[Srv].query, db, dist) :
            /\ Goto(Srv, "hc_write")
            /\ loc' = [loc EXCEPT ![Srv].results = results]
            /\ UNCHANGED lock
       \/ SrvReturn("closed")
    /\ UNCHANGED <<storeVars, fileVars, search, cfg>>

\* write_all and flush (ipc.rs:88-90), Ok or Err, and the return
SrvWrite ==
    /\ pc[Srv] = "hc_write"
    /\ \E conn \in {"response", "closed"} : SrvReturn(conn)
    /\ UNCHANGED <<storeVars, fileVars, search, cfg>>

\* where main goes after send_request (main.rs:88-100): Ok prints and returns, any
\* Err falls through to the cold start
AfterRequest(ok) == IF ok THEN "idle" ELSE "cl_open"

\* read_line and from_str of send_request (ipc.rs:37-42): the response line, or end of
\* file, on which from_str fails
ClReceive ==
    /\ pc[Cli] = "cl_wait"
    /\ loc[Cli].conn \in {"response", "closed"}
    /\ Goto(Cli, AfterRequest(loc[Cli].conn = "response"))
    /\ UNCHANGED <<storeVars, fileVars, loc, lock, search, cfg>>

\* Database::open and needs_sync (main.rs:103-117)
ClOpen ==
    /\ pc[Cli] = "cl_open"
    /\ loc' = [loc EXCEPT ![Cli].opened = TRUE, ![Cli].store = Open(disk)]
    /\ Goto(Cli, IF NeedsSync(loc[Cli].index, loc[Cli].force, meta_file, clock)
                 THEN "cl_sync" ELSE "cl_search")
    /\ UNCHANGED <<storeVars, fileVars, lock, search, cfg>>

RECURSIVE RunGroups(_, _, _)
\* the loop of run_index over the groups (index.rs:262-266): [db, ok]
RunGroups(d, todo, fs) ==
    IF todo = <<>> THEN [db |-> d, ok |-> TRUE]
    ELSE LET r == process_batch(d, FirstGroup(todo), fs, TRUE, TRUE, 0)
         IN  IF r.ok THEN RunGroups(r.db, RestGroups(todo), fs) ELSE r

\* run_index(..)? on the client's store (main.rs:119-124, index.rs:210-277): nothing to
\* index returns Ok; otherwise the groups, db.save()?, the watermark
ClSync ==
    /\ pc[Cli] = "cl_sync"
    /\ LET todo == Todo(loc[Cli].force)
           r == RunGroups(loc[Cli].store, todo, files)
       IN  IF todo = <<>>
           THEN /\ Goto(Cli, "cl_search")
                /\ UNCHANGED <<loc, disk, meta_file>>
           ELSE /\ r.db.next_id <= cfg.max_id
                /\ loc' = [loc EXCEPT ![Cli].store = r.db]
                /\ IF r.ok
                   THEN \E written \in cfg.written :
                            /\ disk' = Save(r.db, disk, written)
                            /\ meta_file' = IF written = 2 THEN {NewWatermark(clock, clock)}
                                            ELSE meta_file
                            /\ Goto(Cli, IF written = 2 THEN "cl_search" ELSE "idle")
                   ELSE /\ Goto(Cli, "idle")
                        /\ UNCHANGED <<disk, meta_file>>
    /\ UNCHANGED <<db, last_sync_time, hist, fileVars, lock, search, cfg>>

\* run_search on the client's store and the output (main.rs:127-137)
ClSearch ==
    /\ pc[Cli] = "cl_search"
    /\ Goto(Cli, "idle")
    /\ UNCHANGED <<storeVars, fileVars, loc, lock, search, cfg>>

\* a running daemon's monitor resyncs a note that is modified
SrvMonitor == DaemonUp /\ (MonTake \/ MonNext \/ MonLock \/ IfBody)

ClientEnv == Tick /\ UNCHANGED <<storeVars, unitVars, search, cfg>>

ClientNext ==
    \/ ClStart \/ ClReceive \/ ClOpen \/ ClSync \/ ClSearch
    \/ SrvAccept \/ SrvRead \/ HcLock(Srv) \/ SrvSearch \/ SrvWrite
    \/ SrvMonitor
    \/ ClientEnv

SpecClient == ClientInit /\ [][ClientNext]_vars

---------------------------------------------------------------------------
(* The claims *)

\* the rows of the metadata table for a path, in table order, and their texts
RowsOf(d, path) == SelectSeqBy(d.chunks, {c \in Range(d.chunks) : c.path = path})
TextsOf(d, path) == [i \in DOMAIN RowsOf(d, path) |-> RowsOf(d, path)[i].text]

\* the fragment texts of a file of the given content: the windows of header + content
ExpectedTexts(path, ver, len, blank) ==
    IF blank THEN <<>>
    ELSE LET b == ChunkBounds(HeaderLen(path) + len, chunk_size, chunk_overlap)
         IN  [i \in DOMAIN b |-> [ver |-> ver, lo |-> b[i].lo, hi |-> b[i].hi]]

\* where a unit is inside a sequence that reads or changes the store
StorePcs == {"hc_search", "if_body", "rf_body", "fi_batch", "fi_save"}

\* where a unit is between two top-level operations
ReturnedPcs == {"idle", "ev_next"}

(* C1: after every completed store operation (insert, delete_by_source, open    *)
(* of an empty location), successful or not, the ids of the ANN index are      *)
(* exactly the ids of the metadata table.                                      *)
C1_IdSetsEqual == db.index = ChunkIds(db)

(* C2: in the daemon at most one unit at a time is inside a sequence that       *)
(* touches the store, and a unit that is inside one holds the store lock.       *)
C2_MutualExclusion ==
    /\ Cardinality({u \in DOMAIN pc : pc[u] \in StorePcs}) <= 1
    /\ \A u \in DOMAIN pc : pc[u] \in StorePcs => u \in lock
    /\ Cardinality(lock) <= 1

\* a worker searches while the other worker, the monitor and the reindex thread wait
C2_Witness ==
    /\ pc["w1"] = "hc_search"
    /\ pc["w2"] = "hc_lock"
    /\ pc[Mon] \in {"if_lock", "rf_lock"}
    /\ pc[Rx] = "fi_lock"

C4_LockOnlyForSearch ==
    \A w \in Workers \cap DOMAIN pc : pc[w] \in {"hc_read", "hc_write"} => w \notin lock

(* C5: the persisted watermark changes only as the last step of a pass in which *)
(* every group was processed and the store saved; a failed pass, a pass with    *)
(* nothing to do, a single-file resync, a remove and a query leave it alone.    *)
C5_WatermarkOnlyAfterPass ==
    [][meta_file' # meta_file =>
          \E u \in DOMAIN pc :
              /\ pc[u] = "fi_meta"
              /\ pc'[u] # "fi_meta"
              /\ loc[u].kind = "pass"
              /\ loc[u].todo = <<>>
              /\ loc[u].saved]_vars

\* a pass has written the watermark; the monitor removes a file, a worker waits
\* with a query and the next pass is at its last group
C5_Witness ==
    /\ meta_file # {}
    /\ pc[Mon] = "rf_body"
    /\ \E w \in Workers : pc[w] = "hc_lock"
    /\ pc[Rx] = "fi_lock"

(* C6: the watermark a successful pass writes is the time at which the pass     *)
(* began scanning, not a later time.                                            *)
C6_WatermarkIsStart ==
    [][\A u \in DOMAIN pc :
          pc[u] = "fi_meta" /\ meta_file' # meta_file => meta_file' = {loc[u].start}]_vars

\* the latest content of the file is what the persisted store holds for it
Reflected(p) ==
    TextsOf(Open(disk), p) = ExpectedTexts(p, files[p].ver, files[p].len, files[p].blank)

(* C7: no modification is permanently missed: whenever no pass is running,      *)
(* every document whose latest content the store does not reflect is newer      *)
(* than the persisted watermark, so the next incremental pass selects it.       *)
C7_NothingMissed ==
    pc[Cli] = "idle" =>
        \A p \in VaultPaths :
            files[p].exists /\ ~Ignored(p) /\ ~Reflected(p)
                => ~Skipped(files[p].mtime, meta_file)

(* C8: resync is replace: after a successful resync of a path the store holds   *)
(* for it exactly the fragments of the content that resync read, and after a    *)
(* successful remove it holds none.                                             *)
C8_ResyncReplaces ==
    \A p \in DOMAIN hist :
        /\ hist[p].kind = "resync" =>
               TextsOf(db, p) = ExpectedTexts(p, hist[p].ver, hist[p].len, hist[p].blank)
        /\ hist[p].kind = "remove" => RowsOf(db, p) = <<>>

\* the second version of a file has replaced the first: its row has the second id
C8_Witness ==
    /\ hist[VaultOrder[1]].kind = "resync"
    /\ hist[VaultOrder[1]].ver = 2
    /\ RowsOf(db, VaultOrder[1]) # <<>>
    /\ \A i \in DOMAIN db.chunks : db.chunks[i].id >= 1
    /\ hist[VaultOrder[2]].kind = "none"

\* the documents a scan with watermark wm has to select
Eligible(fs, wm) ==
    {p \in VaultPaths : /\ ~Ignored(p)
                        /\ fs[p].exists
                        /\ p.ext = "md"
                        /\ \A last \in wm : fs[p].mtime > last}

\* the unit runs a pass that is not forced and found a watermark
Incremental(l, wm) == l.kind = "pass" /\ ~l.force /\ wm # {}

(* C9: an incremental pass with a watermark selects exactly the eligible        *)
(* documents strictly newer than the watermark, reprocesses those, and leaves   *)
(* the rows (ids, texts, mtimes) of every other document unchanged.             *)
C9_IncrementalExact ==
    [][\A u \in DOMAIN pc :
          /\ pc[u] = "idle" /\ pc'[u] # "idle" /\ Incremental(loc'[u], meta_file) =>
                /\ loc'[u].selected = Eligible(files, meta_file)
                /\ {loc'[u].todo[i].path : i \in DOMAIN loc'[u].todo} = loc'[u].selected
          /\ pc[u] = "fi_batch" /\ Incremental(loc[u], meta_file) =>
                /\ \A p \in VaultPaths \ loc[u].selected : RowsOf(db', p) = RowsOf(db, p)
                /\ pc'[u] # "idle" /\ loc'[u].todo # loc[u].todo =>
                      \A i \in DOMAIN FirstGroup(loc[u].todo) :
                          LET p == loc[u].todo[i].path
                          IN  /\ TextsOf(db', p) = ExpectedTexts(p, files[p].ver,
                                                                 files[p].len, files[p].blank)
                              /\ \A k \in DOMAIN RowsOf(db', p) :
                                     RowsOf(db', p)[k].id >= db.next_id]_vars

\* an incremental pass has reprocessed one document and left the rows of the other
C9_Witness ==
    /\ pc[Cli] = "fi_save"
    /\ Incremental(loc[Cli], meta_file)
    /\ loc[Cli].selected = {VaultOrder[1]}
    /\ RowsOf(db, VaultOrder[1]) # <<>>
    /\ RowsOf(db, VaultOrder[2]) # <<>>
    /\ files[VaultOrder[2]].exists

(* C10: for every query and every store the ranker returns at most 5 documents, *)
(* none with a final score of 1.2 or more, and no path twice.                   *)
C10_RankerBounds ==
    /\ Len(search.results) <= 5
    /\ \A i \in DOMAIN search.results : search.results[i].score < 12
    /\ \A i, j \in DOMAIN search.results :
           search.results[i].path = search.results[j].path => i = j

\* six documents matched, all of them near the query, and five were returned
C10_Witness ==
    /\ Len(search.results) = 5
    /\ Len(search.matches) = 6
    /\ Cardinality(DocsIn(db)) = 6
    /\ \A i \in DOMAIN search.matches : search.matches[i].distance = 5

---------------------------------------------------------------------------
(* The store's calls as algebra: SpecDb *)

\* a delete that directly follows an insert of the same path which returned Ok
\* and was given one vector per fragment
InsertThenDelete ==
    /\ hist.op = "delete"
    /\ hist.after = "insert"
    /\ hist.ok
    /\ hist.n = hist.nvec

Restored ==
    /\ Len(db.chunks) = hist.rows
    /\ Cardinality(db.index) = hist.size

MaxIdPlusOne(chunks) ==
    IF chunks = <<>> THEN 0
    ELSE CHOOSE m \in {chunks[i].id + 1 : i \in DOMAIN chunks} :
             \A i \in DOMAIN chunks : chunks[i].id + 1 <= m

\* C12: an open that follows a completed save of the same location yields the
\* rows of the saved store (ids, paths, texts, mtimes, in order), an index
\* holding the same ids, and a next id one more than the greatest id present
\* (zero for an empty store)
C12_SaveOpenRoundTrip ==
    [][(hist.op = "save" /\ hist.ok /\ hist'.op = "open")
        => /\ db'.chunks = db.chunks
           /\ db'.index = db.index
           /\ db'.next_id = MaxIdPlusOne(db.chunks)]_vars

\* a store whose ids have a gap left by a delete was saved and reopened
C12_Witness ==
    /\ hist.op = "open"
    /\ hist.after = "save"
    /\ Len(db.chunks) >= 2
    /\ db.index # {}
    /\ db.next_id > Len(db.chunks)

\* C13: delete_by_path(p) removes from the table and from the index exactly
\* the fragments whose path is p; every other fragment keeps its row, its place
\* and its index entry, the next id is unchanged, and when no row matches the
\* store is left as it was
C13_DeleteFrame ==
    [][hist'.op = "delete"
        => \A p \in hist'.path :
            LET kept == {c \in Range(db.chunks) : c.path # p}
                gone == Range(db.chunks) \ kept
            IN  /\ db'.chunks = SelectSeqBy(db.chunks, kept)
                /\ \A c \in gone : c.id \notin db'.index
                /\ \A c \in kept : c.id \in db.index <=> c.id \in db'.index
                /\ db'.next_id = db.next_id
                /\ gone = {} => db' = db]_vars

\* C14: within one open instance ids are unique and handed out in increasing
\* order: an insert gives its fragments consecutive ids in input order from the
\* current next id and moves the next id past them, no call moves the next id
\* back, and no two rows of the table share an id
C14_IdsUniqueMonotone ==
    [][hist'.op \in {"insert", "delete"}
        => LET old == Len(db.chunks)
               new == Len(db'.chunks) - old
           IN  /\ db'.next_id >= db.next_id
               /\ hist'.op = "insert"
                    => /\ \A i \in 1..new : db'.chunks[old + i].id = db.next_id + i - 1
                       /\ db'.next_id >= db.next_id + new
               /\ \A i, j \in DOMAIN db'.chunks :
                       db'.chunks[i].id = db'.chunks[j].id => i = j]_vars

---------------------------------------------------------------------------
(* The chunker: SpecChunk *)

\* ceil((len - V) / (W - V)) in integers
CeilWindows(len, W, V) == (len - V + (W - V) - 1) \div (W - V)

\* C15: chunk returns no fragment for the empty text, one for a text of at
\* most W code points, and ceil((len - V) / (W - V)) for a longer one, len
\* being the number of code points
C15_ChunkCount ==
    pc = "done"
     => LET len == loc.text.chars
            W   == loc.chunk_size
            V   == loc.chunk_overlap
        IN  Len(search) = IF len = 0 THEN 0
                          ELSE IF len <= W THEN 1
                          ELSE CeilWindows(len, W, V)

\* a text of two-byte characters longer than the window was cut into at least
\* three overlapping fragments, the last shorter than the window
C15_Witness ==
    /\ pc = "done"
    /\ loc.text.chars > loc.chunk_size
    /\ loc.text.bytes > loc.text.chars
    /\ loc.chunk_overlap > 0
    /\ Len(search) >= 3
    /\ search[Len(search)].hi - search[Len(search)].lo < loc.chunk_size

---------------------------------------------------------------------------
(* The request server: SpecDaemon *)

\* the places of handle_client at which the request has been read and parsed
\* and the response has not been written yet
AwaitingResponse == {"hc_lock", "hc_search"}

\* C16: a connection that delivered a well-formed request gets exactly one
\* response before it is closed: handle_client never returns, closing the
\* connection, between the parsing of the request and the write of the response
C16_OneResponse ==
    [][\A w \in Workers : pc[w] \in AwaitingResponse => pc'[w] # "idle"]_vars

---------------------------------------------------------------------------
(* The change monitor: SpecMonitor *)

\* the places of the monitor's thread: waiting for an event, or in handle_event
MonitorPcs == {"idle", "ev_next", "if_lock", "rf_lock", "if_body", "rf_body"}

\* what a step may do to the monitor's thread: it stays in its loop; after a
\* path, handled or failed, handle_event goes on with the remaining paths of the
\* event; the thread goes back to `for event in rx` only after the last path
MonitorGoesOn ==
    /\ pc'[Mon] \in MonitorPcs
    /\ (pc[Mon] \in {"if_body", "rf_body"} /\ pc'[Mon] # pc[Mon])
         => (pc'[Mon] = "ev_next" /\ loc'[Mon].todo = loc[Mon].todo)
    /\ (pc[Mon] = "ev_next" /\ loc'[Mon] # loc[Mon] /\ loc[Mon].todo # <<>>)
         => loc'[Mon].todo = Tail(loc[Mon].todo)
    /\ (pc[Mon] = "ev_next" /\ pc'[Mon] = "idle") => loc[Mon].todo = <<>>

\* C17: a failed index_file or remove_file never stops the monitor: the
\* remaining paths of the event are still processed, and the thread comes back
\* to `for event in rx`, where the next event is taken
C17_MonitorSurvives ==
    [][MonitorGoesOn]_vars /\ [](pc[Mon] = "idle" => ENABLED MonTake)

\* in an event naming two paths the first resync failed and the second path
\* was resynchronised all the same
C17_Witness ==
    /\ pc[Mon] = "ev_next"
    /\ loc[Mon].kind = "modify"
    /\ loc[Mon].todo = <<>>
    /\ loc[Mon].path = VaultOrder[2]
    /\ hist[VaultOrder[1]].kind = "failed"
    /\ hist[VaultOrder[2]].kind = "resync"

---------------------------------------------------------------------------
(* What is on disk: SpecSync *)

\* C18: whenever the process may be killed, the index file and the metadata
\* file describe the same ids: the store that Database::open would read from
\* them holds in its index exactly the ids of its rows
C18_ArtifactsAgree ==
    LET d == Open(disk) IN d.index = ChunkIds(d)

---------------------------------------------------------------------------
(* The cold start: SpecSync *)

\* the watermark record is older than a day at instant now
Stale(meta, now) == \E last \in meta : now - last > DayTicks

\* C19: a command line run without a daemon runs a sync pass before searching
\* if and only if meta.json is absent, or its watermark is older than 24 hours,
\* or --index or --force was given; otherwise it goes to the search with the
\* store as opened
C19_SyncIffNeeded ==
    [][(pc[Cli] = "idle" /\ pc'[Cli] # "idle")
        => /\ loc'[Cli].kind = "pass"
                <=> \/ meta_file = {}
                    \/ Stale(meta_file, clock)
                    \/ loc'[Cli].index
                    \/ loc'[Cli].force
           /\ loc'[Cli].kind # "pass"
                => (db' = Open(disk) /\ pc'[Cli] = "cl_search" /\ disk' = disk)]_vars

\* a run without flags found a watermark older than a day and started a pass
C19_Witness ==
    /\ ~loc[Cli].index
    /\ ~loc[Cli].force
    /\ meta_file # {}
    /\ Stale(meta_file, clock)
    /\ pc[Cli] = "fi_batch"
    /\ loc[Cli].kind = "pass"
    /\ loc[Cli].start = clock
    /\ db = Open(disk)

---------------------------------------------------------------------------
(* A pass and the lock: SpecDaemon *)

\* the place of a pass whose next step is process_batch, which reads the
\* content of each file of the group and cuts it into fragments
ReadingPcs == {"fi_batch"}

\* C20: a pass reads and fragments its files before it takes the store lock:
\* at the places where its next step reads and fragments files the pass does
\* not hold the lock, so a query can take it
C20_ReadsBeforeLock ==
    \A u \in DOMAIN pc : pc[u] \in ReadingPcs => u \notin lock

---------------------------------------------------------------------------
(* What a query sees: SpecQuery *)

\* the places of a top-level operation between its first mutation of the store
\* and its release of the lock; at "if_insert" the old rows of the path are
\* deleted and the new ones are not inserted yet
MidOperation == {"if_body", "if_insert", "rf_body", "fi_batch", "fi_save"}

\* C21: a query reads the store only between top-level operations: when a
\* worker runs its search no pass, resync or remove is under way, and in
\* particular none stands between the delete and the insert of a resync
C21_QuerySeesWholeOps ==
    [][\A w \in Workers \cap DOMAIN pc :
         (pc[w] = "hc_search" /\ pc'[w] # "hc_search")
          => \A u \in DOMAIN pc \ {w} : pc[u] \notin MidOperation]_vars

\* a resync has deleted the rows of an indexed note and not yet inserted the
\* new ones, and a query waits for the lock
C21_Witness ==
    /\ pc[Mon] = "if_insert"
    /\ db.next_id > 0
    /\ RowsOf(db, loc[Mon].path) = <<>>
    /\ loc[Mon].metas # <<>>
    /\ pc["w1"] = "hc_lock"
    /\ disk.chunks # {}
    /\ \E c \in disk.chunks : RowsOf([chunks |-> c], loc[Mon].path) # <<>>

---------------------------------------------------------------------------
(* The ranker against its reference: SpecSearch *)

\* the retrieved fragments: for each match that has a row, its document and
\* its working score
Retrieved ==
    {[path |-> c.path, score |-> Score(search.matches[i].distance, QueryWords(search.query), c.filename)] :
        <<i, c>> \in {x \in (DOMAIN search.matches) \X Range(db.chunks) :
                         x[2].id = search.matches[x[1]].key}}

\* the least working score of each document among the fragments retr
RefScores(retr) ==
    [p \in {f.path : f \in retr} |->
        CHOOSE v \in {f.score : f \in {g \in retr : g.path = p}} :
            \A f \in retr : f.path = p => v <= f.score]

\* C22: the ranker returns the reference over the retrieved fragments: each
\* returned document qualifies (its least score is below 1.2) and carries the
\* least score of its fragments, the list is in ascending order of score, it
\* has 5 entries or all the qualifying documents if they are fewer, and no
\* qualifying document left out scores lower than a returned one
C22_RankerIsReference ==
    search # NoSearch
     => LET res == search.results
            ref == RefScores(Retrieved)
            qualifying == {p \in DOMAIN ref : ref[p] < Threshold}
            returned == {res[i].path : i \in DOMAIN res}
        IN  /\ Len(res) = Min(MaxResults, Cardinality(qualifying))
            /\ Cardinality(returned) = Len(res)
            /\ \A i \in DOMAIN res :
                   res[i].path \in qualifying /\ res[i].score = ref[res[i].path]
            /\ \A i, j \in DOMAIN res : i < j => res[i].score <= res[j].score
            /\ \A p \in qualifying \ returned :
                   \A i \in DOMAIN res : ref[p] >= res[i].score

\* a document with a near and a far fragment was returned with the near one's
\* score, after a document that scored lower
C22_Witness ==
    /\ Len(search.results) >= 2
    /\ search.results[1].score < search.results[2].score
    /\ \E f, g \in Retrieved :
          /\ f.path = g.path
          /\ f.score < g.score
          /\ f.path = search.results[2].path
          /\ search.results[2].score = f.score

\* a lowercased token of the query that is longer than 2 characters is a
\* substring of the lowercased display name
TokenInName(query, filename) ==
    \E token \in Range(split_whitespace(to_lowercase(query))) :
        Len(token) > 2 /\ contains(to_lowercase(filename), token)

\* C23: the working score of a fragment is its distance minus 0.7 if a token
\* of the query longer than 2 characters is in its display name, and its
\* distance otherwise: every returned score is that of a retrieved fragment of
\* the document
C23_WorkingScore ==
    search # NoSearch
     => \A i \in DOMAIN search.results :
          \E k \in DOMAIN search.matches, c \in Range(db.chunks) :
              /\ c.id = search.matches[k].key
              /\ c.path = search.results[i].path
              /\ search.results[i].score =
                    IF TokenInName(search.query, c.filename)
                    THEN search.matches[k].distance - FilenameBoost
                    ELSE search.matches[k].distance

---------------------------------------------------------------------------
(* The chunker's windows: SpecChunk *)

\* C24: the i-th fragment (from 0) is the code points [i(W-V), min(i(W-V)+W, len))
\* of the text: the first starts at 0, the last ends where the text ends, every
\* code point lies in a fragment, consecutive fragments share exactly V code
\* points, and a text of at most W code points gives one fragment, the whole text
C24_ChunkWindows ==
    pc = "done"
     => LET len == loc.text.chars
            W   == loc.chunk_size
            V   == loc.chunk_overlap
            out == search
        IN  /\ \A i \in DOMAIN out :
                   /\ out[i].lo = (i - 1) * (W - V)
                   /\ out[i].hi = Min((i - 1) * (W - V) + W, len)
            /\ len > 0 => (out # <<>> /\ out[1].lo = 0 /\ out[Len(out)].hi = len)
            /\ \A c \in 0..(len - 1) : \E i \in DOMAIN out : out[i].lo <= c /\ c < out[i].hi
            /\ \A i \in 1..(Len(out) - 1) : out[i].hi - out[i + 1].lo = V
            /\ (0 < len /\ len <= W) => out = <<[lo |-> 0, hi |-> len]>>

\* a text was cut into four windows or more that overlap by two code points
\* or more, the last one shorter than the others
C24_Witness ==
    /\ pc = "done"
    /\ Len(search) >= 4
    /\ loc.chunk_overlap >= 2
    /\ search[Len(search)].hi - search[Len(search)].lo < loc.chunk_size
    /\ search[2].lo = loc.chunk_size - loc.chunk_overlap

---------------------------------------------------------------------------
(* Groups of files: SpecBatch *)

\* C25: when the content a resync reads is empty or whitespace-only, the
\* resync deletes the rows the path had and inserts none, and the other files
\* of the group are replaced as usual
C25_BlankFileEmptied ==
    (loc.ran /\ loc.ok)
     => \A p \in Range(loc.group) :
          /\ hist[p].blank => RowsOf(db, p) = <<>>
          /\ TextsOf(db, p) = ExpectedTexts(p, hist[p].ver, hist[p].len, hist[p].blank)

\* a group of two files was resynchronised: the first, indexed before, held
\* only whitespace and has no row left; the second was rewritten and replaced
C25_Witness ==
    /\ loc.ran
    /\ loc.ok
    /\ loc.group = VaultOrder
    /\ RowsOf(loc.before, VaultOrder[1]) # <<>>
    /\ RowsOf(loc.before, VaultOrder[2]) # <<>>
    /\ hist[VaultOrder[1]].blank
    /\ hist[VaultOrder[1]].len = 3
    /\ RowsOf(db, VaultOrder[1]) = <<>>
    /\ hist[VaultOrder[2]].ver = 2
    /\ RowsOf(db, VaultOrder[2]) # <<>>

\* the mutexes a unit holds, and the lock() call a unit is at
Holding(u) == {m \in Mutexes : u \in lock[m]}
Waiting(u, m) == pc[u] # <<>> /\ Head(pc[u]) = Acquire(m)

Persisted(dk, d) == dk = [index |-> {d.index}, chunks |-> {d.chunks}]

\* the step in which u drops the store guard with its operation still succeeding:
\* index_file or remove_file returns Ok, a pass has saved and goes on to its watermark
ReleasesOk(u) ==
    /\ u \in lock
    /\ u \notin lock'
    /\ IF u = Mon THEN loc'[Mon].saved ELSE pc'[u] = "fi_meta"

\* C27: whenever a single-file resync, a remove or a sync pass of the daemon succeeds, the
\* two persisted artifacts are exactly the in-memory store at the moment the operation
\* releases the lock: the save comes after the operation's last mutation and before the
\* release, so no acknowledged change exists only in memory.
C27_SavedAtRelease ==
    [][\A u \in {Mon, Rx} : ReleasesOk(u) => Persisted(disk', db')]_vars

\* a remove has returned Ok: what is on disk is the store the remove left, the fragments
\* of the other file included
C27_Witness ==
    /\ pc[Mon] = "ev_next"
    /\ loc[Mon].kind = "remove"
    /\ loc[Mon].saved
    /\ db.chunks # <<>>
    /\ Persisted(disk, db)

\* C28: if a single-file resync or one group of a sync pass fails (unreadable file, embedder
\* error, insert error), the store's fragments of every path of that group are what they
\* were before the group started: no path has lost its old fragments without getting new ones.
C28_FailedGroupUntouched ==
    (loc.ran /\ ~loc.ok) =>
        \A i \in DOMAIN loc.group :
            RowsOf(db, loc.group[i]) = RowsOf(loc.before, loc.group[i])

\* the document paths that have a fragment in the store
PathsOf(d) == {d.chunks[i].path : i \in DOMAIN d.chunks}

\* the unit has completed a forced pass with Ok
ForcedPassDone(u) == pc[u] = "cl_search" /\ loc[u].kind = "pass" /\ loc[u].force

\* C29: after a forced full pass has completed successfully, the paths that have fragments
\* in the store are the eligible documents with non-whitespace content the scan found: every
\* path with a fragment was found by the scan (so none belongs to a document deleted before
\* the pass), and a scanned document not rewritten since has fragments iff it is not blank.
C29_StoreMatchesScan ==
    ForcedPassDone(Cli) =>
        /\ PathsOf(db) \subseteq loc[Cli].selected
        /\ \A p \in loc[Cli].selected :
              files[p].mtime < loc[Cli].start => (p \in PathsOf(db) <=> ~files[p].blank)

\* C30: after any sequence of sync passes and monitor events, no fragment of the store
\* belongs to a document under a directory with an ignored name, at any depth.
C30_NoIgnoredFragment == \A p \in PathsOf(db) : ~Ignored(p)

\* C31: an id assigned to a fragment is never later assigned to a different fragment of
\* the same persisted store, across any sequence of insert, delete, save and open on one
\* location: no id has been on disk with fragments of two different insert calls.
C31_IdNeverReused ==
    \A a \in hist.persisted, b \in hist.persisted : a.id = b.id => a.gen = b.gen

\* C32: the command-line search takes the standalone path, opening the store files itself,
\* only when the daemon cannot be reached: once a running daemon has accepted the client's
\* connection, whatever becomes of the request, the client does not open or write the store.
C32_StandaloneOnlyUnreached == loc[Cli].accepted => ~loc[Cli].opened

====
